---------------------------- MODULE Spec2Model ----------------------------
(***************************************************************************)
(* Matrix factorization by gradient descent with momentum                  *)
(* (src/MatrixFactorization/mf.py).                                        *)
(*                                                                         *)
(* Numbers.  A float is modelled as a fixed-point number: the integer x    *)
(* stands for x / Scale.  Sums and differences are exact, a product and a  *)
(* quotient are rounded to the nearest unit (as a float operation rounds   *)
(* to the nearest representable number).  0.0 / 0 is NaN, which every      *)
(* later operation propagates.                                             *)
(*                                                                         *)
(* Tables.  A pandas DataFrame is a record of columns, each a sequence of  *)
(* the same length; the columns are userId, movieId, rating and, once      *)
(* sparse_multiply has run on the table, Prediction.  Keys are naturals.   *)
(* The field dtypes holds the numpy dtype of the two key columns: a column *)
(* of no rows built by np.array([]) is float64, and an array that is not   *)
(* integer typed cannot index an embedding.                                *)
(* A Python call that raises is modelled by a result whose field "raised"  *)
(* names the exception.  In-place Series.replace (mf.py lines 41-42) is    *)
(* modelled as it acts in the pandas versions the code was written for     *)
(* (the frame is updated).                                                 *)
(***************************************************************************)
EXTENDS Integers, Sequences, FiniteSets, TLC

\* ------------------------------------------------------------------------
\* Bounds of the model
\* ------------------------------------------------------------------------

\* Resolution of the number grid: one unit is 1 / Scale.
Scale == 1000

\* Longest training table (rows) drawn in Init.
MaxRows == 2

\* Longest validation table (rows) drawn in InitEnc.
MaxValRows == 2

\* Largest iteration count passed to gradient_descent in Spec.
MaxIter == 2

\* Largest iteration count passed to gradient_descent in SpecTrain.
MaxTrainIter == 51

\* ------------------------------------------------------------------------
\* Floats
\* ------------------------------------------------------------------------

\* The float nan: a value outside the range the model's numbers reach.
NaN == -(2^30)

\* a / d rounded to the nearest integer, a half away from zero (d > 0):
\* rounding commutes with negation, as float rounding does.
RoundDiv(a, d) ==
    IF a >= 0 THEN (2 * a + d) \div (2 * d) ELSE -((2 * (-a) + d) \div (2 * d))

FromInt(n) == n * Scale

FromRatio(p, q) == RoundDiv(p * Scale, q)

FAdd(a, b) == IF a = NaN \/ b = NaN THEN NaN ELSE a + b

FSub(a, b) == IF a = NaN \/ b = NaN THEN NaN ELSE a - b

FMul(a, b) == IF a = NaN \/ b = NaN THEN NaN ELSE RoundDiv(a * b, Scale)

\* float / int.  The model divides by 0 only a sum over no entries, which
\* is 0.0, and 0.0 / 0 is nan in numpy (a warning, no exception).
FDivInt(a, n) == IF a = NaN \/ n = 0 THEN NaN ELSE RoundDiv(a, n)

\* The sum of f[x] over the domain of f.
RECURSIVE SumFn(_)
SumFn(f) ==
    IF DOMAIN f = {} THEN 0
    ELSE LET x == CHOOSE y \in DOMAIN f : TRUE
         IN  FAdd(f[x], SumFn([y \in DOMAIN f \ {x} |-> f[y]]))

\* ------------------------------------------------------------------------
\* Dense matrices: a sequence of rows, each a sequence of K floats
\* ------------------------------------------------------------------------

NRows(M) == Len(M)

\* np.sum(a * b, axis=1) for one pair of rows.
Dot(a, b) == SumFn([k \in 1..Len(a) |-> FMul(a[k], b[k])])

MatAdd(A, B) ==
    [i \in 1..Len(A) |-> [k \in 1..Len(A[i]) |-> FAdd(A[i][k], B[i][k])]]

MatSub(A, B) ==
    [i \in 1..Len(A) |-> [k \in 1..Len(A[i]) |-> FSub(A[i][k], B[i][k])]]

MatScale(c, A) == [i \in 1..Len(A) |-> [k \in 1..Len(A[i]) |-> FMul(c, A[i][k])]]

MatDivInt(A, n) == [i \in 1..Len(A) |-> [k \in 1..Len(A[i]) |-> FDivInt(A[i][k], n)]]

ZeroLike(A) == [i \in 1..Len(A) |-> [k \in 1..Len(A[i]) |-> 0]]

\* ------------------------------------------------------------------------
\* Tables (DataFrames)
\* ------------------------------------------------------------------------

\* The dtypes of two key columns of integers.
IntKeys == [userId |-> "int64", movieId |-> "int64"]

\* A table whose key columns hold integers.
MkDf(u, m, r) == [userId |-> u, movieId |-> m, rating |-> r, dtypes |-> IntKeys]

\* The table of no rows whose key columns are float64, as pandas builds it
\* from empty lists and as encode_data leaves it.
EmptyFloatDf ==
    [userId |-> <<>>, movieId |-> <<>>, rating |-> <<>>,
     dtypes |-> [userId |-> "float64", movieId |-> "float64"]]

\* df["Prediction"] = p : adds the column, or overwrites it.
WithPrediction(df, p) ==
    [userId |-> df.userId, movieId |-> df.movieId, rating |-> df.rating,
     dtypes |-> df.dtypes, Prediction |-> p]

\* Same table with the two key columns replaced by columns of dtypes dt.
WithKeys(df, u, m, dt) ==
    IF "Prediction" \in DOMAIN df
    THEN [userId |-> u, movieId |-> m, rating |-> df.rating, dtypes |-> dt,
          Prediction |-> df.Prediction]
    ELSE [userId |-> u, movieId |-> m, rating |-> df.rating, dtypes |-> dt]

\* The columns a table has.
Columns(df) == DOMAIN df \ {"dtypes"}

NumRows(df) == Len(df.userId)

\* The absent table (Python's None), passed as df_val.
NoneDf == [none |-> TRUE]

IsNone(df) == "none" \in DOMAIN df

\* ------------------------------------------------------------------------
\* proc_col, encode_data, encode_new_data
\* ------------------------------------------------------------------------

Range(s) == {s[p] : p \in 1..Len(s)}

\* col.unique(): the distinct values in order of first appearance.
RECURSIVE Unique(_)
Unique(col) ==
    IF col = <<>> THEN <<>>
    ELSE LET front == Unique(SubSeq(col, 1, Len(col) - 1))
             last  == col[Len(col)]
         IN  IF last \in Range(front) THEN front ELSE Append(front, last)

\* {o: i for i, o in enumerate(uniq)}
Enumerate(uniq) ==
    [o \in Range(uniq) |-> (CHOOSE p \in 1..Len(uniq) : uniq[p] = o) - 1]

\* The dtype of np.array(list of Python ints): int64, but float64 when the
\* list is empty.
ArrayDtype(codes) == IF codes = <<>> THEN "float64" ELSE "int64"

\* The variant that numbers the keys in sorted order.
ProcColSorted(col) ==
    LET keys == Range(col)
        name2idx == [o \in keys |-> Cardinality({x \in keys : x < o})]
        codes == [p \in 1..Len(col) |-> name2idx[col[p]]]
    IN  [name2idx |-> name2idx,
         codes    |-> codes,
         dtype    |-> ArrayDtype(codes),
         n        |-> Cardinality(keys)]

ProcCol(col) ==
    LET uniq == Unique(col)
        name2idx == Enumerate(uniq)
        codes == [p \in 1..Len(col) |-> name2idx[col[p]]]
    IN  [name2idx |-> name2idx,
         codes    |-> codes,
         dtype    |-> ArrayDtype(codes),
         n        |-> Len(uniq)]

\* encode_data: both key columns of df are replaced in place.
EncodeData(df) ==
    LET pu == ProcCol(df.userId)
        pm == ProcCol(df.movieId)
    IN  [df |-> WithKeys(df, pu.codes, pm.codes,
                         [userId |-> pu.dtype, movieId |-> pm.dtype]),
         num_users |-> pu.n, num_movies |-> pm.n]

\* Series.replace(d): every value that is a key of d becomes d[value], all
\* values at once.
Replace(col, d) ==
    [p \in 1..Len(col) |-> IF col[p] \in DOMAIN d THEN d[col[p]] ELSE col[p]]

\* The rows a boolean mask keeps, in order (reset_index renumbers them).
RECURSIVE Keep(_, _)
Keep(col, mask) ==
    IF col = <<>> THEN <<>>
    ELSE LET front == Keep(SubSeq(col, 1, Len(col) - 1),
                           SubSeq(mask, 1, Len(mask) - 1))
         IN  IF mask[Len(col)] THEN Append(front, col[Len(col)]) ELSE front

\* The variant whose mask keeps a row when either key is known.
ValMaskEither(df_val, user2idx, mov2idx) ==
    [p \in 1..NumRows(df_val) |->
        df_val.userId[p] \in DOMAIN user2idx
        \/ df_val.movieId[p] \in DOMAIN mov2idx]

\* The mask of line 40: isin(user2idx) & isin(mov2idx).
ValMask(df_val, user2idx, mov2idx) ==
    [p \in 1..NumRows(df_val) |->
        df_val.userId[p] \in DOMAIN user2idx
        /\ df_val.movieId[p] \in DOMAIN mov2idx]

\* encode_new_data: df_train is encoded in place (lines 38-39); the result
\* is a new table, df_val itself is left as it was.  Selecting rows and
\* replacing integers by integers keep the dtypes of df_val's columns.
EncodeNewData(df_val, df_train) ==
    LET pu   == ProcCol(df_train.userId)
        pm   == ProcCol(df_train.movieId)
        mask == ValMask(df_val, pu.name2idx, pm.name2idx)
        kept == [c \in DOMAIN df_val |->
                    IF c = "dtypes" THEN df_val.dtypes ELSE Keep(df_val[c], mask)]
    IN  [df_train |-> WithKeys(df_train, pu.codes, pm.codes,
                               [userId |-> pu.dtype, movieId |-> pm.dtype]),
         out      |-> WithKeys(kept, Replace(kept.userId, pu.name2idx),
                                     Replace(kept.movieId, pm.name2idx),
                               kept.dtypes)]

\* ------------------------------------------------------------------------
\* Sparse matrices: a shape and the stored entries, a function from the
\* stored (row, column) pairs to their values
\* ------------------------------------------------------------------------

Nnz(A) == Cardinality(DOMAIN A.data)

\* The rows of the table that name the pair p.
RowsOf(df, p) ==
    {r \in 1..NumRows(df) : <<df.userId[r], df.movieId[r]>> = p}

\* The variant in which the last row naming a pair overwrites the others.
EntryValueLast(df, column_name, p) ==
    df[column_name][CHOOSE r \in RowsOf(df, p) : \A q \in RowsOf(df, p) : q <= r]

\* The value csc_matrix stores for a pair: the rows naming it are summed.
EntryValue(df, column_name, p) ==
    SumFn([r \in RowsOf(df, p) |-> df[column_name][r]])

\* The variant that skips the rows it cannot place.
Df2MatrixPartial(df, nrows, ncols, column_name) ==
    LET ok == {r \in 1..NumRows(df) :
                  df.userId[r] < nrows /\ df.movieId[r] < ncols}
    IN  [raised |-> "",
         m |-> [shape |-> <<nrows, ncols>>,
                data  |-> [p \in {<<df.userId[r], df.movieId[r]>> : r \in ok}
                              |-> EntryValue(df, column_name, p)]]]

\* df2matrix: csc_matrix((values, (ind_user, ind_movie)), shape) refuses an
\* index that exceeds the shape; a stored value that is 0 stays stored.  The
\* index arrays are cast to the index dtype, whatever their own.
Df2Matrix(df, nrows, ncols, column_name) ==
    IF \E r \in 1..NumRows(df) : df.userId[r] >= nrows \/ df.movieId[r] >= ncols
    THEN [raised |-> "ValueError"]
    ELSE [raised |-> "",
          m |-> [shape |-> <<nrows, ncols>>,
                 data  |-> [p \in {<<df.userId[r], df.movieId[r]>> :
                                      r \in 1..NumRows(df)}
                               |-> EntryValue(df, column_name, p)]]]

SpGet(A, p) == IF p \in DOMAIN A.data THEN A.data[p] ELSE 0

\* A - B of two sparse matrices of one shape; a difference of 0 is not stored.
SpSub(A, B) ==
    LET dom == DOMAIN A.data \cup DOMAIN B.data
    IN  [shape |-> A.shape,
         data  |-> [p \in {q \in dom : FSub(SpGet(A, q), SpGet(B, q)) # 0}
                       |-> FSub(SpGet(A, p), SpGet(B, p))]]

\* scalar * sparse
SpScale(c, A) ==
    [shape |-> A.shape, data |-> [p \in DOMAIN A.data |-> FMul(c, A.data[p])]]

\* csc_matrix.power(A, 2)
SpPower2(A) ==
    [shape |-> A.shape,
     data  |-> [p \in DOMAIN A.data |-> FMul(A.data[p], A.data[p])]]

SpSum(A) == SumFn(A.data)

SpTranspose(A) ==
    [shape |-> <<A.shape[2], A.shape[1]>>,
     data  |-> [p \in {<<q[2], q[1]>> : q \in DOMAIN A.data}
                   |-> A.data[<<p[2], p[1]>>]]]

\* sparse * dense: the matrix product, a dense matrix of A.shape[1] rows.
SpMatMul(A, M) ==
    [i \in 1..A.shape[1] |->
        [k \in 1..Len(M[1]) |->
            SumFn([j \in {c \in 0..(A.shape[2] - 1) : <<i - 1, c>> \in DOMAIN A.data}
                      |-> FMul(A.data[<<i - 1, j>>], M[j + 1][k])])]]

\* ------------------------------------------------------------------------
\* sparse_multiply, cost, gradient
\* ------------------------------------------------------------------------

\* sparse_multiply: indexing an embedding by an array that is not integer
\* typed, or past its last row, raises before the table is touched;
\* otherwise the column Prediction is written into the caller's table and
\* the matrix is built from it.
SparseMultiply(df, emb_user, emb_movie) ==
    IF \/ df.dtypes.userId # "int64"
       \/ df.dtypes.movieId # "int64"
       \/ \E r \in 1..NumRows(df) :
             df.userId[r] >= NRows(emb_user) \/ df.movieId[r] >= NRows(emb_movie)
    THEN [df |-> df, raised |-> "IndexError"]
    ELSE LET pred == [r \in 1..NumRows(df) |->
                         Dot(emb_user[df.userId[r] + 1],
                             emb_movie[df.movieId[r] + 1])]
             df2  == WithPrediction(df, pred)
             built == Df2Matrix(df2, NRows(emb_user), NRows(emb_movie),
                                "Prediction")
         IN  [df |-> df2, raised |-> built.raised, m |-> built.m]

\* What cost returns: None, or a float.
NoneVal == [kind |-> "None"]

FloatVal(x) == [kind |-> "float", v |-> x]

\* The variant that divides by the number of rows of the table.
CostPerRow(df, emb_user, emb_movie) ==
    IF IsNone(df) THEN [df |-> df, raised |-> "", out |-> NoneVal]
    ELSE LET built == Df2Matrix(df, NRows(emb_user), NRows(emb_movie), "rating")
         IN  IF built.raised # "" THEN [df |-> df, raised |-> built.raised]
             ELSE LET sm == SparseMultiply(df, emb_user, emb_movie)
                  IN  IF sm.raised # "" THEN [df |-> sm.df, raised |-> sm.raised]
                      ELSE [df |-> sm.df, raised |-> "",
                            out |-> FloatVal(FDivInt(
                                       SpSum(SpPower2(SpSub(built.m, sm.m))),
                                       NumRows(df)))]

\* cost: lines 98-104.
Cost(df, emb_user, emb_movie) ==
    IF IsNone(df) THEN [df |-> df, raised |-> "", out |-> NoneVal]
    ELSE LET built == Df2Matrix(df, NRows(emb_user), NRows(emb_movie), "rating")
         IN  IF built.raised # "" THEN [df |-> df, raised |-> built.raised]
             ELSE LET sm == SparseMultiply(df, emb_user, emb_movie)
                      N  == Nnz(built.m)
                  IN  IF sm.raised # "" THEN [df |-> sm.df, raised |-> sm.raised]
                      ELSE [df |-> sm.df, raised |-> "",
                            out |-> FloatVal(FDivInt(
                                       SpSum(SpPower2(SpSub(built.m, sm.m))),
                                       N))]

\* An index argument of finite_difference: None, or an integer.
IntVal(n) == [kind |-> "int", v |-> n]

\* x / e for the array x of lines 115-120: np.zeros_like(emb) with the entry
\* [ind][k] set to e, in units of e.
UnitAt(emb, ind, k) ==
    [a \in 1..Len(emb) |->
        [b \in 1..Len(emb[a]) |-> IF a = ind + 1 /\ b = k + 1 THEN 1 ELSE 0]]

\* (c2 - c1) / e of line 122 for the arrays emb_user + e dU, emb_movie + e dV.
\* e = 1e-9 is far below one unit of the grid, so the quotient is taken to
\* first order in e: every stored entry (u, m) of Y - P adds
\* -2 (Y - P)[u, m] dP[u, m], dP the change of the prediction matrix per unit
\* of e; the part of the quotient left out is e times a sum of dP^2 / N,
\* below the grid.  nan - nan is nan.
CostSlope(df, emb_user, emb_movie, dU, dV) ==
    LET Ym    == Df2Matrix(df, NRows(emb_user), NRows(emb_movie), "rating").m
        sm    == SparseMultiply(df, emb_user, emb_movie)
        dpred == [r \in 1..NumRows(df) |->
                    SumFn([k \in 1..Len(emb_user[1]) |->
                              dU[df.userId[r] + 1][k] * emb_movie[df.movieId[r] + 1][k]
                              + emb_user[df.userId[r] + 1][k] * dV[df.movieId[r] + 1][k]])]
        dP    == Df2Matrix(WithPrediction(df, dpred), NRows(emb_user),
                           NRows(emb_movie), "Prediction").m
        R     == SpSub(Ym, sm.m)
    IN  FDivInt(SumFn([p \in DOMAIN R.data |->
                          FMul(FMul(FromInt(-2), R.data[p]), SpGet(dP, p))]),
                Nnz(Ym))

\* finite_difference: lines 112-122 (k an integer, and ind_m an integer
\* when ind_u is None).  cost runs twice on the caller's table; the entry
\* [ind][k] must exist in the array it is written into.  On the grid the
\* perturbed arrays round to the arrays passed, so the Prediction column
\* the second cost leaves is the one the first left.
FiniteDifference(df, emb_user, emb_movie, ind_u, ind_m, k) ==
    LET c1 == Cost(df, emb_user, emb_movie)
    IN  IF c1.raised # "" THEN [df |-> c1.df, raised |-> c1.raised]
        ELSE IF ind_u # NoneVal /\ (ind_u.v >= NRows(emb_user)
                                    \/ k >= Len(emb_user[1]))
        THEN [df |-> c1.df, raised |-> "IndexError"]
        ELSE IF ind_u = NoneVal /\ (ind_m.v >= NRows(emb_movie)
                                    \/ k >= Len(emb_movie[1]))
        THEN [df |-> c1.df, raised |-> "IndexError"]
        ELSE LET x  == IF ind_u # NoneVal THEN UnitAt(emb_user, ind_u.v, k)
                       ELSE ZeroLike(emb_user)
                 y  == IF ind_u # NoneVal THEN ZeroLike(emb_movie)
                       ELSE UnitAt(emb_movie, ind_m.v, k)
                 c2 == Cost(c1.df, emb_user, emb_movie)
             IN  [df |-> c2.df, raised |-> "",
                  out |-> FloatVal(CostSlope(df, emb_user, emb_movie, x, y))]

\* The variant whose item gradient forgets the transpose.
GradientNoTranspose(df, Y, emb_user, emb_movie) ==
    LET sm == SparseMultiply(df, emb_user, emb_movie)
    IN  IF sm.raised # "" THEN [df |-> sm.df, raised |-> sm.raised]
        ELSE IF sm.m.shape # Y.shape THEN [df |-> sm.df, raised |-> "ValueError"]
        ELSE LET R == SpScale(FromInt(-2), SpSub(Y, sm.m))
             IN  [df |-> sm.df, raised |-> "",
                  grad_user  |-> MatDivInt(SpMatMul(R, emb_movie), Nnz(Y)),
                  grad_movie |-> MatDivInt(SpMatMul([R EXCEPT !.shape =
                                                        <<R.shape[2], R.shape[1]>>],
                                                    emb_user), Nnz(Y))]

\* gradient: lines 141-145.  Y - pred needs the two shapes to agree.
Gradient(df, Y, emb_user, emb_movie) ==
    LET N  == Nnz(Y)
        sm == SparseMultiply(df, emb_user, emb_movie)
    IN  IF sm.raised # "" THEN [df |-> sm.df, raised |-> sm.raised]
        ELSE IF sm.m.shape # Y.shape THEN [df |-> sm.df, raised |-> "ValueError"]
        ELSE [df |-> sm.df, raised |-> "",
              grad_user  |-> MatDivInt(SpMatMul(SpScale(FromInt(-2), SpSub(Y, sm.m)),
                                                emb_movie), N),
              grad_movie |-> MatDivInt(SpMatMul(SpScale(FromInt(-2),
                                                        SpTranspose(SpSub(Y, sm.m))),
                                                emb_user), N)]

\* ------------------------------------------------------------------------
\* gradient_descent: the pieces of one iteration
\* ------------------------------------------------------------------------

\* The momentum coefficient written into lines 161-162.
Beta == FromRatio(9, 10)

\* (1 - 0.9)
OneMinusBeta == FSub(FromInt(1), Beta)

\* The period of the report, line 165.
ReportEvery == 50

\* The variant that adds the whole gradient to the damped velocity.
VelocityUndamped(v, grad) == MatAdd(MatScale(Beta, v), grad)

\* v = 0.9 * v + (1 - 0.9) * grad
Velocity(v, grad) ==
    MatAdd(MatScale(Beta, v), MatScale(OneMinusBeta, grad))

\* emb = emb - learning_rate * v : a new array, bound to the local name.
Step(emb, lr, v) == MatSub(emb, MatScale(lr, v))

\* The variant that updates the array in place (emb -= learning_rate * v):
\* the array the caller passed becomes the new one.
PassedArrayInPlace(passed, new) == new

\* Lines 163-164 bind the local name to a new array: the array the caller
\* passed keeps its value.
PassedArray(passed, new) == passed

\* The variant that reports on every iteration but the 50th ones.
ShouldReportOff(it) == (it + 1) % ReportEvery = 0

\* not i % 50
ShouldReport(it) == it % ReportEvery = 0

\* ------------------------------------------------------------------------
\* State
\* ------------------------------------------------------------------------

VARIABLES
    df_train,       \* the caller's training table
    df_val,         \* the caller's validation table
    arg_emb_user,   \* the caller's user embedding array
    arg_emb_movie,  \* the caller's movie embedding array
    ret,            \* the last call that ended: its arguments and its result
    pc,             \* "idle", or "loop" inside gradient_descent
    iterations,     \* gradient_descent's arguments ...
    learning_rate,
    with_val,       \* ... df_val was passed (TRUE) or left None (FALSE)
    Y,              \* ... and its locals
    i,
    emb_user,
    emb_movie,
    v_user,
    v_movie,
    reports         \* what gradient_descent has printed, a line per entry

vars == <<df_train, df_val, arg_emb_user, arg_emb_movie, ret, pc, iterations,
          learning_rate, with_val, Y, i, emb_user, emb_movie, v_user, v_movie,
          reports>>

tables == <<df_train, df_val>>

arrays == <<arg_emb_user, arg_emb_movie>>

locals == <<iterations, learning_rate, with_val, Y, i, emb_user, emb_movie,
            v_user, v_movie, reports>>

\* No call of gradient_descent is running: its frame does not exist.
NoFrame ==
    /\ iterations = 0
    /\ learning_rate = 0
    /\ with_val = FALSE
    /\ Y = [shape |-> <<0, 0>>, data |-> <<>>]
    /\ i = 0
    /\ emb_user = <<>>
    /\ emb_movie = <<>>
    /\ v_user = <<>>
    /\ v_movie = <<>>
    /\ reports = <<>>

NoFrameNext ==
    /\ iterations' = 0
    /\ learning_rate' = 0
    /\ with_val' = FALSE
    /\ Y' = [shape |-> <<0, 0>>, data |-> <<>>]
    /\ i' = 0
    /\ emb_user' = <<>>
    /\ emb_movie' = <<>>
    /\ v_user' = <<>>
    /\ v_movie' = <<>>
    /\ reports' = <<>>

\* ------------------------------------------------------------------------
\* Inputs
\* ------------------------------------------------------------------------

UserKeys == {0, 1, 2}

MovieKeys == {0, 1}

\* Two rating columns: 5, 3, 5, 3, ... and 0, 5, 5, ...
RatingsA(n) == [r \in 1..n |-> FromInt(IF r % 2 = 1 THEN 5 ELSE 3)]

RatingsB(n) == [r \in 1..n |-> FromInt(IF r = 1 THEN 0 ELSE 5)]

TablesOf(n, ratings) ==
    {MkDf(u, m, ratings) : u \in [1..n -> UserKeys], m \in [1..n -> MovieKeys]}

TrainTables ==
    UNION {TablesOf(n, RatingsA(n)) \cup TablesOf(n, RatingsB(n)) : n \in 0..MaxRows}
    \cup {EmptyFloatDf}

\* Validation tables of the numeric sessions: one within the embeddings'
\* shapes, one with a user past them.
ValTables ==
    {MkDf(<<0, 1>>, <<0, 1>>, <<FromInt(4), FromInt(2)>>),
     MkDf(<<0, 2>>, <<0, 1>>, <<FromInt(4), FromInt(1)>>)}

\* Validation tables of the encoder sessions.
EncValTables ==
    UNION {TablesOf(n, [r \in 1..n |-> FromInt(r)]) : n \in 0..MaxValRows}

Identity2 == <<<<FromInt(1), 0>>, <<0, FromInt(1)>>>>

\* (user embedding, movie embedding) pairs, K = 2.
Embeddings ==
    {<<Identity2, Identity2>>,
     <<<<<<FromInt(1), FromInt(2)>>, <<0, FromInt(1)>>>>,
       <<<<FromInt(2), 0>>, <<FromInt(1), FromInt(1)>>, <<FromInt(1), FromInt(2)>>>>>>}

LearningRates == {FromRatio(1, 100), FromRatio(1, 10)}

\* Tables of the sessions: the cost example, three ratings, raw keys that
\* need encoding, no rating at all, one pair rated twice.
SessionTables ==
    {MkDf(<<0, 1>>, <<0, 1>>, <<FromInt(5), FromInt(3)>>),
     MkDf(<<0, 0, 1>>, <<0, 1, 1>>, <<FromInt(5), FromInt(1), FromInt(3)>>),
     MkDf(<<2, 0>>, <<1, 1>>, <<FromInt(4), FromInt(2)>>),
     MkDf(<<>>, <<>>, <<>>),
     MkDf(<<0, 0>>, <<0, 0>>, <<FromInt(5), FromInt(3)>>)}

\* Shapes passed to df2matrix.
RowDims == {2, 3}

ColDims == {1, 2}

Init ==
    /\ df_train \in SessionTables
    /\ df_val \in ValTables
    /\ \E e \in Embeddings : arg_emb_user = e[1] /\ arg_emb_movie = e[2]
    /\ ret = [op |-> "none"]
    /\ pc = "idle"
    /\ NoFrame

InitEnc ==
    /\ df_train \in TablesOf(MaxRows, RatingsA(MaxRows))
                    \cup TablesOf(MaxRows - 1, RatingsA(MaxRows - 1))
    /\ df_val \in EncValTables
    /\ arg_emb_user = Identity2
    /\ arg_emb_movie = Identity2
    /\ ret = [op |-> "none"]
    /\ pc = "idle"
    /\ NoFrame

\* The numeric functions on every small table.
InitFn ==
    /\ df_train \in TrainTables
    /\ df_val = MkDf(<<0, 2>>, <<0, 1>>, <<FromInt(4), FromInt(1)>>)
    /\ \E e \in Embeddings : arg_emb_user = e[1] /\ arg_emb_movie = e[2]
    /\ ret = [op |-> "none"]
    /\ pc = "idle"
    /\ NoFrame

\* ------------------------------------------------------------------------
\* Calls made by the caller while no training runs
\* ------------------------------------------------------------------------

\* proc_col(col) on a key column of a table: nothing but the result.
CallProcCol ==
    /\ pc = "idle"
    /\ \E df \in {df_train, df_val}, c \in {"userId", "movieId"} :
          ret' = [op |-> "proc_col", col |-> df[c], out |-> ProcCol(df[c])]
    /\ UNCHANGED <<tables, arrays, pc, locals>>

\* encode_data(df_train)
CallEncodeData ==
    /\ pc = "idle"
    /\ LET r == EncodeData(df_train)
       IN  /\ df_train' = r.df
           /\ ret' = [op |-> "encode_data", df |-> df_train, out |-> r.df,
                      num_users |-> r.num_users, num_movies |-> r.num_movies]
    /\ UNCHANGED <<df_val, arrays, pc, locals>>

\* encode_new_data(df_val, df_train)
CallEncodeNewData ==
    /\ pc = "idle"
    /\ LET r == EncodeNewData(df_val, df_train)
       IN  /\ df_train' = r.df_train
           /\ ret' = [op |-> "encode_new_data", df_val |-> df_val,
                      df_train |-> df_train, out |-> r.out]
    /\ UNCHANGED <<df_val, arrays, pc, locals>>

\* df2matrix(df, nrows, ncols)
CallDf2Matrix ==
    /\ pc = "idle"
    /\ \E df \in {df_train, df_val}, nrows \in RowDims, ncols \in ColDims :
          ret' = [op |-> "df2matrix", df |-> df, nrows |-> nrows, ncols |-> ncols,
                  out |-> Df2Matrix(df, nrows, ncols, "rating")]
    /\ UNCHANGED <<tables, arrays, pc, locals>>

\* sparse_multiply(df, emb_user, emb_movie) on either table.
CallSparseMultiply ==
    /\ pc = "idle"
    /\ \E t \in {"train", "val"} :
          LET df == IF t = "train" THEN df_train ELSE df_val
              r  == SparseMultiply(df, arg_emb_user, arg_emb_movie)
          IN  /\ df_train' = IF t = "train" THEN r.df ELSE df_train
              /\ df_val' = IF t = "val" THEN r.df ELSE df_val
              /\ ret' = [op |-> "sparse_multiply", df |-> df, out |-> r]
    /\ UNCHANGED <<arrays, pc, locals>>

\* cost(df, emb_user, emb_movie) on either table, or on None.
CallCost ==
    /\ pc = "idle"
    /\ \E t \in {"train", "val", "None"} :
          LET df == IF t = "train" THEN df_train
                    ELSE IF t = "val" THEN df_val ELSE NoneDf
              r  == Cost(df, arg_emb_user, arg_emb_movie)
          IN  /\ df_train' = IF t = "train" THEN r.df ELSE df_train
              /\ df_val' = IF t = "val" THEN r.df ELSE df_val
              /\ ret' = [op |-> "cost", df |-> df, out |-> r]
    /\ UNCHANGED <<arrays, pc, locals>>

\* The (ind_u, ind_m) pairs passed to finite_difference, and the k: every
\* entry of the arrays, and indices one past them.
EntryArgs ==
    {<<IntVal(a), NoneVal>> : a \in 0..2} \cup {<<NoneVal, IntVal(b)>> : b \in 0..3}

FactorArgs == 0..2

\* finite_difference(df_train, emb_user, emb_movie, ind_u, ind_m, k)
CallFiniteDifference ==
    /\ pc = "idle"
    /\ \E ind \in EntryArgs, k \in FactorArgs :
          LET r == FiniteDifference(df_train, arg_emb_user, arg_emb_movie,
                                    ind[1], ind[2], k)
          IN  /\ df_train' = r.df
              /\ ret' = [op |-> "finite_difference", df |-> df_train,
                         ind_u |-> ind[1], ind_m |-> ind[2], k |-> k, out |-> r]
    /\ UNCHANGED <<df_val, arrays, pc, locals>>

\* gradient(df, Y, emb_user, emb_movie), Y built by the caller as
\* gradient_descent builds it.
CallGradient ==
    /\ pc = "idle"
    /\ \E t \in {"train", "val"} :
          LET df    == IF t = "train" THEN df_train ELSE df_val
              built == Df2Matrix(df, NRows(arg_emb_user), NRows(arg_emb_movie),
                                 "rating")
          IN  /\ built.raised = ""
              /\ LET r == Gradient(df, built.m, arg_emb_user, arg_emb_movie)
                 IN  /\ df_train' = IF t = "train" THEN r.df ELSE df_train
                     /\ df_val' = IF t = "val" THEN r.df ELSE df_val
                     /\ ret' = [op |-> "gradient", df |-> df, Y |-> built.m,
                                out |-> r]
    /\ UNCHANGED <<arrays, pc, locals>>

\* ------------------------------------------------------------------------
\* gradient_descent(df_train, arg_emb_user, arg_emb_movie, iterations,
\*                  learning_rate, df_val)
\* ------------------------------------------------------------------------

\* The arguments and the outcome of an ended call.
GDResult(raised, n, lr, wv, out, printed) ==
    [op |-> "gradient_descent", raised |-> raised, iterations |-> n,
     learning_rate |-> lr, with_val |-> wv, out |-> out, reports |-> printed]

\* The iteration counts tried: the first ones, and those from the second
\* report on.
IterationCounts(maxn) == {n \in 0..maxn : n <= MaxIter \/ n >= ReportEvery}

\* Lines 157-158: Y is built once; a table outside the shapes ends the call.
GDCall(maxn) ==
    /\ pc = "idle"
    /\ \E n \in IterationCounts(maxn), lr \in LearningRates, wv \in BOOLEAN :
          LET built == Df2Matrix(df_train, NRows(arg_emb_user),
                                 NRows(arg_emb_movie), "rating")
          IN  IF built.raised # ""
              THEN /\ ret' = GDResult(built.raised, n, lr, wv, <<>>, <<>>)
                   /\ UNCHANGED <<pc, locals>>
              ELSE /\ pc' = "loop"
                   /\ ret' = [op |-> "running"]
                   /\ iterations' = n
                   /\ learning_rate' = lr
                   /\ with_val' = wv
                   /\ Y' = built.m
                   /\ i' = 0
                   /\ emb_user' = arg_emb_user
                   /\ emb_movie' = arg_emb_movie
                   /\ v_user' = ZeroLike(arg_emb_user)
                   /\ v_movie' = ZeroLike(arg_emb_movie)
                   /\ reports' = <<>>
    /\ UNCHANGED <<tables, arrays>>

\* Lines 159-166: one pass of the loop body.  The scalar 0 the velocities
\* start from acts as a zero array of the gradient's shape.  (Each value is
\* bound by \E over a singleton so that it is computed once.)
GDIterate ==
    /\ pc = "loop"
    /\ i < iterations
    /\ \E g \in {Gradient(df_train, Y, emb_user, emb_movie)} :
           IF g.raised # ""
           THEN /\ ret' = GDResult(g.raised, iterations, learning_rate, with_val,
                                   <<>>, reports)
                /\ pc' = "idle"
                /\ df_train' = g.df
                /\ df_val' = df_val
                /\ NoFrameNext
                /\ UNCHANGED arrays
           ELSE \E nv_user \in {Velocity(v_user, g.grad_user)},
                       nv_movie \in {Velocity(v_movie, g.grad_movie)} :
                \E n_user \in {Step(emb_user, learning_rate, nv_user)},
                       n_movie \in {Step(emb_movie, learning_rate, nv_movie)} :
                /\ LET c_train == Cost(g.df, n_user, n_movie)
                       c_val   == Cost(IF with_val THEN df_val ELSE NoneDf,
                                       n_user, n_movie)
                   IN
                    IF ~ShouldReport(i)
                    THEN /\ df_train' = g.df
                         /\ i' = i + 1
                         /\ emb_user' = n_user
                         /\ emb_movie' = n_movie
                         /\ v_user' = nv_user
                         /\ v_movie' = nv_movie
                         /\ UNCHANGED <<df_val, ret, pc, iterations, learning_rate,
                                        with_val, Y, reports>>
                    ELSE IF c_train.raised # "" \/ c_val.raised # ""
                    THEN /\ ret' = GDResult(IF c_train.raised # ""
                                            THEN c_train.raised ELSE c_val.raised,
                                            iterations, learning_rate, with_val,
                                            <<>>, reports)
                         /\ pc' = "idle"
                         /\ df_train' = c_train.df
                         /\ df_val' = df_val
                         /\ NoFrameNext
                    ELSE /\ df_train' = c_train.df
                         /\ df_val' = IF with_val THEN c_val.df ELSE df_val
                         /\ reports' = Append(reports, <<i, c_train.out, c_val.out>>)
                         /\ i' = i + 1
                         /\ emb_user' = n_user
                         /\ emb_movie' = n_movie
                         /\ v_user' = nv_user
                         /\ v_movie' = nv_movie
                         /\ UNCHANGED <<ret, pc, iterations, learning_rate,
                                        with_val, Y>>
                /\ arg_emb_user' = PassedArray(arg_emb_user, n_user)
                /\ arg_emb_movie' = PassedArray(arg_emb_movie, n_movie)

\* Line 167.
GDReturn ==
    /\ pc = "loop"
    /\ i = iterations
    /\ ret' = GDResult("", iterations, learning_rate, with_val,
                       <<emb_user, emb_movie>>, reports)
    /\ pc' = "idle"
    /\ NoFrameNext
    /\ UNCHANGED <<tables, arrays>>

\* ------------------------------------------------------------------------
\* Specifications
\* ------------------------------------------------------------------------

GDCallShort == GDCall(MaxIter)

\* One training run per session, on the tables as the caller made them.
GDCallLong == ret.op = "none" /\ GDCall(MaxTrainIter)

\* A session of calls on one pair of tables and one pair of arrays.
Next ==
    \/ CallProcCol
    \/ CallEncodeData
    \/ CallEncodeNewData
    \/ CallDf2Matrix
    \/ CallSparseMultiply
    \/ CallCost
    \/ CallFiniteDifference
    \/ CallGradient
    \/ GDCallShort
    \/ GDIterate
    \/ GDReturn

Spec == Init /\ [][Next]_vars

\* The encoder alone, on more validation tables.
NextEnc ==
    \/ CallProcCol
    \/ CallEncodeData
    \/ CallEncodeNewData

SpecEnc == InitEnc /\ [][NextEnc]_vars

\* Training runs long enough to pass the second report.
NextTrain ==
    \/ GDCallLong
    \/ GDIterate
    \/ GDReturn

SpecTrain == Init /\ [][NextTrain]_vars

\* The numeric functions alone.
NextFn ==
    \/ CallDf2Matrix
    \/ CallSparseMultiply
    \/ CallCost
    \/ CallFiniteDifference
    \/ CallGradient

SpecFn == InitFn /\ [][NextFn]_vars

\* ------------------------------------------------------------------------
\* Properties of the encoder (SpecEnc)
\* ------------------------------------------------------------------------

\* The first position of key k in col.
FirstAt(col, k) ==
    CHOOSE p \in 1..Len(col) : col[p] = k /\ \A q \in 1..(p - 1) : col[q] # k

\* The number of distinct keys that appear in col before k first does.
RankOf(col, k) == Cardinality({col[q] : q \in 1..(FirstAt(col, k) - 1)})

\* C4: proc_col numbers the distinct keys 0 .. n-1 in order of first
\* occurrence (each key's index is the number of distinct keys seen before
\* it, whatever their sorted order), translates the column position by
\* position through that map, and returns n = the number of distinct keys.
C4_ProcColFirstOccurrence ==
    ret.op = "proc_col" =>
        LET col  == ret.col
            o    == ret.out
            keys == Range(col)
        IN  /\ DOMAIN o.name2idx = keys
            /\ o.n = Cardinality(keys)
            /\ \A k \in keys : o.name2idx[k] \in 0..(o.n - 1)
            /\ \A a \in keys, b \in keys : a # b => o.name2idx[a] # o.name2idx[b]
            /\ \A k \in keys : o.name2idx[k] = RankOf(col, k)
            /\ Len(o.codes) = Len(col)
            /\ \A p \in 1..Len(col) : o.codes[p] = o.name2idx[col[p]]

\* proc_col has run on a column whose first-occurrence order is not the
\* sorted order.
C4_Witness ==
    /\ ret.op = "proc_col"
    /\ \E a \in Range(ret.col), b \in Range(ret.col) :
          a < b /\ ret.out.name2idx[a] > ret.out.name2idx[b]

\* A row of the validation table whose two keys both occur in the training
\* table.
Known(val, train, p) ==
    /\ val.userId[p] \in Range(train.userId)
    /\ val.movieId[p] \in Range(train.movieId)

\* The position in val of the j-th row that is Known.
NthKnown(val, train, j) ==
    CHOOSE p \in 1..NumRows(val) :
        /\ Known(val, train, p)
        /\ Cardinality({q \in 1..p : Known(val, train, q)}) = j

\* C5: encode_new_data returns exactly the rows of df_val whose user key and
\* item key both occur in the training table, in their original order, each
\* key replaced by the index the training map gives it; every other row is
\* dropped, and no error is raised.
C5_EncodeNewDataInnerJoin ==
    ret.op = "encode_new_data" =>
        LET val   == ret.df_val
            train == ret.df_train
            out   == ret.out
            n     == Cardinality({p \in 1..NumRows(val) : Known(val, train, p)})
        IN  /\ Len(out.userId) = n
            /\ Len(out.movieId) = n
            /\ Len(out.rating) = n
            /\ \A j \in 1..n :
                  LET p == NthKnown(val, train, j)
                  IN  /\ out.userId[j] = RankOf(train.userId, val.userId[p])
                      /\ out.movieId[j] = RankOf(train.movieId, val.movieId[p])
                      /\ out.rating[j] = val.rating[p]

\* encode_new_data has dropped a row for an unseen key and kept a row whose
\* key it had to renumber.
C5_Witness ==
    /\ ret.op = "encode_new_data"
    /\ 1 <= Len(ret.out.userId)
    /\ Len(ret.out.userId) < NumRows(ret.df_val)
    /\ \E p \in 1..NumRows(ret.df_val) :
          /\ Known(ret.df_val, ret.df_train, p)
          /\ RankOf(ret.df_train.userId, ret.df_val.userId[p]) # ret.df_val.userId[p]

\* ------------------------------------------------------------------------
\* Properties of the numeric functions (SpecFn)
\* ------------------------------------------------------------------------

\* The (user, item) pairs the table names.
PairsOf(df) == {<<df.userId[r], df.movieId[r]>> : r \in 1..NumRows(df)}

\* No pair is named by two rows.
DistinctPairs(df) ==
    \A r \in 1..NumRows(df), q \in 1..NumRows(df) :
        (df.userId[r] = df.userId[q] /\ df.movieId[r] = df.movieId[q]) => r = q

\* The sum of column c over the rows 1..r that name the pair p.
RECURSIVE PairSum(_, _, _, _)
PairSum(df, c, p, r) ==
    IF r = 0 THEN 0
    ELSE PairSum(df, c, p, r - 1)
         + (IF <<df.userId[r], df.movieId[r]>> = p THEN c[r] ELSE 0)

\* The last row that names the pair p.
LastRowOf(df, p) ==
    CHOOSE r \in 1..NumRows(df) :
        /\ <<df.userId[r], df.movieId[r]>> = p
        /\ \A q \in (r + 1)..NumRows(df) : <<df.userId[q], df.movieId[q]>> # p

\* Some row lies outside the shape (nrows, ncols).
OutOfRange(df, nrows, ncols) ==
    \E r \in 1..NumRows(df) : df.userId[r] >= nrows \/ df.movieId[r] >= ncols

\* C6 as claimed: with distinct pairs the matrix stores as many entries as
\* the table has rows, and a pair named by several rows stores the value of
\* the last of them.
C6_LastWriteWins ==
    (ret.op = "df2matrix" /\ ret.out.raised = "") =>
        /\ DistinctPairs(ret.df) => Nnz(ret.out.m) = NumRows(ret.df)
        /\ \A p \in DOMAIN ret.out.m.data :
              ret.out.m.data[p] = ret.df.rating[LastRowOf(ret.df, p)]

\* C6, amended: with distinct pairs the matrix stores as many entries as the
\* table has rows (a rating of 0 included); the stored pairs are the pairs
\* the table names, and a pair named by several rows stores the sum of the
\* values of those rows.
C6_DuplicatesAreSummed ==
    (ret.op = "df2matrix" /\ ret.out.raised = "") =>
        /\ DistinctPairs(ret.df) => Nnz(ret.out.m) = NumRows(ret.df)
        /\ DOMAIN ret.out.m.data = PairsOf(ret.df)
        /\ \A p \in DOMAIN ret.out.m.data :
              ret.out.m.data[p] = PairSum(ret.df, ret.df.rating, p, NumRows(ret.df))

\* df2matrix has built a matrix from a table in which two rows name one pair
\* with different values.
C6_Witness ==
    /\ ret.op = "df2matrix"
    /\ ret.out.raised = ""
    /\ \E r \in 1..NumRows(ret.df), q \in 1..NumRows(ret.df) :
          /\ r < q
          /\ ret.df.userId[r] = ret.df.userId[q]
          /\ ret.df.movieId[r] = ret.df.movieId[q]
          /\ ret.df.rating[r] # 0

\* C7: df2matrix with a row whose user index is >= nrows or whose item index
\* is >= ncols ends with an error and returns no matrix, not even one built
\* from the rows that fit.
C7_OutOfRangeFails ==
    (ret.op = "df2matrix" /\ OutOfRange(ret.df, ret.nrows, ret.ncols)) =>
        /\ ret.out.raised # ""
        /\ "m" \notin DOMAIN ret.out

\* df2matrix has refused a table of which one row fits the shape and another
\* does not.
C7_Witness ==
    /\ ret.op = "df2matrix"
    /\ ret.out.raised # ""
    /\ \E r \in 1..NumRows(ret.df) :
          ret.df.userId[r] < ret.nrows /\ ret.df.movieId[r] < ret.ncols
    /\ \E r \in 1..NumRows(ret.df) : ret.df.userId[r] = ret.nrows

\* C8 as claimed: on a table of no rows cost and gradient end with an
\* EmptyDataset error.
C8_EmptyDatasetFails ==
    /\ (ret.op = "cost" /\ ~IsNone(ret.df) /\ NumRows(ret.df) = 0)
          => ret.out.raised = "EmptyDataset"
    /\ (ret.op = "gradient" /\ NumRows(ret.df) = 0)
          => ret.out.raised = "EmptyDataset"

\* dot(U[user], V[item]) of row r of the table.
RowDot(df, U, V, r) == Dot(U[df.userId[r] + 1], V[df.movieId[r] + 1])

\* The sum of a sequence of floats.
RECURSIVE SeqSum(_)
SeqSum(q) == IF q = <<>> THEN 0 ELSE SeqSum(SubSeq(q, 1, Len(q) - 1)) + q[Len(q)]

\* cost has returned a float for a table of at least one row.
CostReturned ==
    /\ ret.op = "cost"
    /\ ~IsNone(ret.df)
    /\ ret.out.raised = ""
    /\ NumRows(ret.df) >= 1

\* The cost example of the specification: (0,0) = 5 and (1,1) = 3 observed,
\* U = V = the 2 x 2 identity.
CostExample ==
    /\ ret.op = "cost"
    /\ ~IsNone(ret.df)
    /\ ret.df.userId = <<0, 1>>
    /\ ret.df.movieId = <<0, 1>>
    /\ ret.df.rating = <<FromInt(5), FromInt(3)>>
    /\ arg_emb_user = Identity2
    /\ arg_emb_movie = Identity2

\* C3 as claimed: cost is the sum over the observed entries of
\* (rating - dot(U[user], V[item]))^2 divided by their number, and 10 on the
\* example.
C3_CostPerObservedEntry ==
    /\ CostReturned =>
          LET df == ret.df
              sq == [r \in 1..NumRows(df) |->
                        FMul(df.rating[r] - RowDot(df, arg_emb_user, arg_emb_movie, r),
                             df.rating[r] - RowDot(df, arg_emb_user, arg_emb_movie, r))]
          IN  ret.out.out = FloatVal(RoundDiv(SeqSum(sq), NumRows(df)))
    /\ CostExample => ret.out.out = FloatVal(FromInt(10))

\* The residual of the pair p: the sum of its rows' ratings less the sum of
\* its rows' dot products.
PairResidual(df, U, V, p) ==
    PairSum(df, df.rating, p, NumRows(df))
    - PairSum(df, [r \in 1..NumRows(df) |-> RowDot(df, U, V, r)], p, NumRows(df))

\* C3, amended: cost is the sum over the distinct observed pairs of the
\* squared residual of the pair (the sum of the ratings of the rows naming it
\* less the sum of their dot products), divided by the number of distinct
\* pairs; when no pair is named twice this is the sum over the rows of
\* (rating - dot)^2 divided by the number of rows, and it is 10 on the
\* example.
C3_CostPerDistinctPair ==
    /\ CostReturned =>
          LET df == ret.df
              sq == [p \in PairsOf(df) |->
                        FMul(PairResidual(df, arg_emb_user, arg_emb_movie, p),
                             PairResidual(df, arg_emb_user, arg_emb_movie, p))]
              rows == [r \in 1..NumRows(df) |->
                        FMul(df.rating[r] - RowDot(df, arg_emb_user, arg_emb_movie, r),
                             df.rating[r] - RowDot(df, arg_emb_user, arg_emb_movie, r))]
          IN  /\ ret.out.out = FloatVal(RoundDiv(SumFn(sq), Cardinality(PairsOf(df))))
              /\ DistinctPairs(df) =>
                    ret.out.out = FloatVal(RoundDiv(SeqSum(rows), NumRows(df)))
    /\ CostExample => ret.out.out = FloatVal(FromInt(10))

\* cost has returned on the example.
C3_Witness ==
    /\ CostExample
    /\ ret.out.raised = ""

\* gradient has returned for a table of at least one row.
GradientReturned ==
    /\ ret.op = "gradient"
    /\ ret.out.raised = ""
    /\ NumRows(ret.df) >= 1

\* C2: gradient returns grad_U = -2 (R V) / nnz(Y) and grad_V =
\* -2 (R^T U) / nnz(Y), R = Y - P on the observed pattern and R V the matrix
\* product; so the row of a user, or of an item, that has no observed rating
\* is all zero.
C2_GradientFormula ==
    GradientReturned =>
        LET df == ret.df
            U  == arg_emb_user
            V  == arg_emb_movie
            N  == Cardinality(PairsOf(df))
            R(u, m) == IF <<u, m>> \in PairsOf(df)
                       THEN PairResidual(df, U, V, <<u, m>>) ELSE 0
            K  == Len(U[1])
        IN  /\ N = Nnz(ret.Y)
            /\ Len(ret.out.grad_user) = Len(U)
            /\ Len(ret.out.grad_movie) = Len(V)
            /\ \A u \in 1..Len(U), k \in 1..K :
                  ret.out.grad_user[u][k] =
                      RoundDiv(SeqSum([m \in 1..Len(V) |->
                                          FMul(-2 * R(u - 1, m - 1), V[m][k])]), N)
            /\ \A m \in 1..Len(V), k \in 1..K :
                  ret.out.grad_movie[m][k] =
                      RoundDiv(SeqSum([u \in 1..Len(U) |->
                                          FMul(-2 * R(u - 1, m - 1), U[u][k])]), N)
            /\ \A u \in 1..Len(U) :
                  (\A r \in 1..NumRows(df) : df.userId[r] # u - 1)
                      => \A k \in 1..K : ret.out.grad_user[u][k] = 0
            /\ \A m \in 1..Len(V) :
                  (\A r \in 1..NumRows(df) : df.movieId[r] # m - 1)
                      => \A k \in 1..K : ret.out.grad_movie[m][k] = 0

\* gradient has returned a user row and an item row that are all zero for
\* want of a rating, beside entries that are not zero.
C2_Witness ==
    /\ GradientReturned
    /\ \E u \in 1..Len(arg_emb_user) : \A r \in 1..NumRows(ret.df) : ret.df.userId[r] # u - 1
    /\ \E m \in 1..Len(arg_emb_movie) : \A r \in 1..NumRows(ret.df) : ret.df.movieId[r] # m - 1
    /\ \E u \in 1..Len(arg_emb_user) : ret.out.grad_user[u][1] # 0
    /\ \E m \in 1..Len(arg_emb_movie) : ret.out.grad_movie[m][1] # 0

\* ------------------------------------------------------------------------
\* Properties of the training loop (SpecTrain)
\* ------------------------------------------------------------------------

\* The table lies within the shapes of the arrays the caller passes.
InRange(df) ==
    ~OutOfRange(df, NRows(arg_emb_user), NRows(arg_emb_movie))

\* a*A + b*B, entry by entry.
Blend(a, A, b, B) ==
    [u \in 1..Len(A) |-> [k \in 1..Len(A[u]) |->
        FAdd(FMul(a, A[u][k]), FMul(b, B[u][k]))]]

\* C1: on tables within the arrays' shapes gradient_descent makes exactly
\* `iterations` loop transitions and then returns, with no early stop.  It
\* starts from the arrays passed, zero velocities, i = 0 and Y built from the
\* table; each transition takes the gradient against that same Y, sets
\* v = 0.9 v + 0.1 grad for both arrays, then U = U - eta v, V = V - eta v;
\* what it returns is the pair held when i reaches `iterations` (the arrays
\* passed when iterations = 0).
C1_TrainingLoop ==
    /\ [][/\ (pc = "idle" /\ pc' = "loop") =>
                /\ i' = 0
                /\ emb_user' = arg_emb_user
                /\ emb_movie' = arg_emb_movie
                /\ v_user' = [u \in 1..Len(arg_emb_user) |-> <<0, 0>>]
                /\ v_movie' = [m \in 1..Len(arg_emb_movie) |-> <<0, 0>>]
                /\ Y'.shape = <<Len(arg_emb_user), Len(arg_emb_movie)>>
                /\ DOMAIN Y'.data = PairsOf(df_train)
                /\ \A p \in PairsOf(df_train) :
                      Y'.data[p] = PairSum(df_train, df_train.rating, p,
                                           NumRows(df_train))
          /\ (pc = "loop" /\ pc' = "loop") =>
                LET g == Gradient(df_train, Y, emb_user, emb_movie)
                IN  /\ i < iterations
                    /\ i' = i + 1
                    /\ iterations' = iterations
                    /\ learning_rate' = learning_rate
                    /\ Y' = Y
                    /\ v_user' = Blend(FromRatio(9, 10), v_user,
                                       FromRatio(1, 10), g.grad_user)
                    /\ v_movie' = Blend(FromRatio(9, 10), v_movie,
                                        FromRatio(1, 10), g.grad_movie)
                    /\ emb_user' = Blend(FromInt(1), emb_user,
                                         -learning_rate, v_user')
                    /\ emb_movie' = Blend(FromInt(1), emb_movie,
                                          -learning_rate, v_movie')
          /\ (pc = "loop" /\ pc' = "idle" /\ (with_val => InRange(df_val))) =>
                /\ i = iterations
                /\ ret'.op = "gradient_descent"
                /\ ret'.raised = ""
                /\ ret'.iterations = iterations
                /\ ret'.out = <<emb_user, emb_movie>>
          /\ (pc = "loop" /\ i = iterations) => pc' = "idle"
         ]_vars
    /\ [](pc = "loop" => i <= iterations)
    /\ []((ret.op = "gradient_descent" /\ ret.raised = "" /\ ret.iterations = 0)
             => ret.out = <<arg_emb_user, arg_emb_movie>>)

\* gradient_descent has returned after MaxTrainIter transitions with arrays
\* that are not the ones it was passed.
C1_Witness ==
    /\ ret.op = "gradient_descent"
    /\ ret.raised = ""
    /\ ret.iterations = MaxTrainIter
    /\ ret.out[1] # arg_emb_user
    /\ ret.out[2] # arg_emb_movie
    /\ NumRows(df_train) >= 2

\* The iterations below n that report, in order.
RECURSIVE ReportingBelow(_)
ReportingBelow(n) ==
    IF n = 0 THEN <<>>
    ELSE IF (n - 1) % 50 = 0 THEN Append(ReportingBelow(n - 1), n - 1)
    ELSE ReportingBelow(n - 1)

\* The reports printed so far follow the 50-iteration cadence up to iteration
\* n, and their validation cost is None exactly when no validation table was
\* passed.
CadenceUpTo(printed, n, wv) ==
    /\ [j \in 1..Len(printed) |-> printed[j][1]] = ReportingBelow(n)
    /\ \A j \in 1..Len(printed) :
          /\ printed[j][2].kind = "float"
          /\ (printed[j][3] = NoneVal) <=> ~wv

\* C9: during gradient_descent a report is printed at exactly the iterations
\* i < n with i mod 50 = 0 (iteration 0 included, none when n = 0); each
\* carries the training cost of the arrays as the iteration has just updated
\* them, and its validation cost is None exactly when no validation table was
\* passed.
C9_ReportCadence ==
    /\ [](pc = "loop" => CadenceUpTo(reports, i, with_val))
    /\ []((ret.op = "gradient_descent" /\ ret.raised = "")
             => CadenceUpTo(ret.reports, ret.iterations, ret.with_val))
    /\ [][(pc = "loop" /\ pc' = "loop") =>
             /\ Len(reports') = Len(reports) + (IF i % 50 = 0 THEN 1 ELSE 0)
             /\ SubSeq(reports', 1, Len(reports)) = reports
             /\ i % 50 = 0 =>
                   LET last == reports'[Len(reports')]
                       c    == Cost(df_train, emb_user', emb_movie')
                       cv   == Cost(df_val, emb_user', emb_movie')
                   IN  /\ last[1] = i
                       /\ last[2] = c.out
                       /\ with_val => last[3] = cv.out
          ]_vars

\* gradient_descent has returned after printing at iterations 0 and 50, once
\* with a validation table and once without.
C9_Witness ==
    /\ ret.op = "gradient_descent"
    /\ ret.raised = ""
    /\ Len(ret.reports) = 2
    /\ ret.reports[2][1] = 50
    /\ ret.reports[1][2] # ret.reports[2][2]
    /\ ret.with_val

\* ------------------------------------------------------------------------
\* What the calls leave alone (Spec)
\* ------------------------------------------------------------------------

\* C10 as claimed: no call changes a table passed to it (its columns, its
\* userId, movieId and rating values) or an embedding array passed to it,
\* and no iteration changes the matrix Y built before the loop.
C10_EveryOperationIsPure ==
    [][/\ df_train' = df_train
       /\ df_val' = df_val
       /\ arg_emb_user' = arg_emb_user
       /\ arg_emb_movie' = arg_emb_movie
       /\ (pc = "loop" /\ pc' = "loop") => Y' = Y
      ]_vars

\* C10, amended: no call changes the rating column of a table passed to it
\* or an embedding array passed to it, and no iteration changes the matrix Y
\* built before the loop.  The key columns userId and movieId of a table
\* change only when encode_data, or encode_new_data as its training table,
\* renumbers them in place; the validation table passed to encode_new_data
\* is not changed.  The only column a call adds to a table is Prediction,
\* which sparse_multiply, cost, gradient and gradient_descent write.
C10_FrameOfTheCalls ==
    [][/\ df_train'.rating = df_train.rating
       /\ df_val'.rating = df_val.rating
       /\ arg_emb_user' = arg_emb_user
       /\ arg_emb_movie' = arg_emb_movie
       /\ (pc = "loop" /\ pc' = "loop") => Y' = Y
       /\ df_val'.userId = df_val.userId
       /\ df_val'.movieId = df_val.movieId
       /\ (df_train'.userId # df_train.userId \/ df_train'.movieId # df_train.movieId)
             => ret'.op \in {"encode_data", "encode_new_data"}
       /\ ret'.op \in {"encode_data", "encode_new_data", "proc_col", "df2matrix"}
             => (Columns(df_train') = Columns(df_train)
                 /\ Columns(df_val') = Columns(df_val)
                 /\ df_val' = df_val)
       /\ Columns(df_train) \subseteq Columns(df_train')
       /\ Columns(df_train') \subseteq Columns(df_train) \cup {"Prediction"}
       /\ Columns(df_val) \subseteq Columns(df_val')
       /\ Columns(df_val') \subseteq Columns(df_val) \cup {"Prediction"}
      ]_vars

\* Every kind of change has happened: the training table has been renumbered
\* and carries a Prediction column, the validation table carries one too, and
\* a training run has returned arrays other than the ones it was passed.
C10_Witness ==
    /\ "Prediction" \in Columns(df_train)
    /\ "Prediction" \in Columns(df_val)
    /\ df_train.userId = <<0, 1>>
    /\ df_train.movieId = <<0, 0>>
    /\ ret.op = "gradient_descent"
    /\ ret.raised = ""
    /\ ret.iterations = MaxIter
    /\ ret.out[1] # arg_emb_user

=============================================================================
